---- MODULE Spec2Model ----
(***************************************************************************)
(* Public REST API of the CRM: the contacts routes                         *)
(*   src/app/api/public/v1/contacts/route.ts            (GET list, POST)   *)
(*   src/app/api/public/v1/contacts/[contactId]/route.ts (GET one, PATCH)  *)
(* over the two tables they touch (contacts, crm_companies).               *)
(*                                                                         *)
(* Strings are sequences of one-character strings, so that trimming,       *)
(* lower-casing and ILIKE pattern matching are computed, not assumed.      *)
(* A handler is cut at its awaited store calls: each store round trip is   *)
(* one action, which is where other requests can interleave.               *)
(***************************************************************************)
EXTENDS Integers, Sequences, FiniteSets, TLC

\* ---------------------------------------------------------------- bounds
MaxContacts == 2
MaxCompanies == 2
MaxClock == 1

Orgs == {"o1", "o2"}
Slots == {1, 2}

\* ------------------------------------------------------- values and text
\* JavaScript undefined (key not in the body) and JSON null / SQL NULL.
Absent == <<"#absent">>
Null == <<"#null">>
NoId == 0

IsStr(v) == v # Absent /\ v # Null

Lower(c) == IF c = "A" THEN "a" ELSE IF c = "B" THEN "b" ELSE c

LowerStr(s) == [i \in 1..Len(s) |-> Lower(s[i])]

RECURSIVE TrimLeft(_)
TrimLeft(s) == IF s # <<>> /\ Head(s) = " " THEN TrimLeft(Tail(s)) ELSE s

RECURSIVE TrimRight(_)
TrimRight(s) ==
  IF s # <<>> /\ s[Len(s)] = " " THEN TrimRight(SubSeq(s, 1, Len(s) - 1)) ELSE s

Trim(s) == TrimRight(TrimLeft(s))

StripFormatting(s) == SelectSeq(s, LAMBDA c : c \notin {" ", "-"})

\* lib/public-api/sanitize: trim; the empty string is absence.
normalizeText(v) ==
  IF ~IsStr(v) THEN Null ELSE IF Trim(v) = <<>> THEN Null ELSE Trim(v)

\* lib/public-api/sanitize: lower-case and trim; no further validation.
normalizeEmail(v) ==
  IF ~IsStr(v) THEN Null
  ELSE IF Trim(v) = <<>> THEN Null ELSE LowerStr(Trim(v))

\* lib/public-api/sanitize: one canonical form (formatting characters dropped).
normalizePhone(v) ==
  IF ~IsStr(v) THEN Null
  ELSE IF StripFormatting(v) = <<>> THEN Null ELSE StripFormatting(v)

\* lib/supabase/utils: a well-formed uuid or null.  Raw uuids are
\* <<"uuid", k>> (well formed, naming row k) or <<"baduuid">>.
isValidUUID(v) == Len(v) = 2 /\ v[1] = "uuid"

sanitizeUUID(v) == IF isValidUUID(v) THEN v[2] ELSE NoId

\* Dates.  A raw date string is <<"blank">> (empty or spaces), <<"ymd", d>>
\* (YYYY-MM-DD of day d), <<"iso", d>> (an ISO timestamp on day d),
\* <<"ymdx">> (digits in the shape YYYY-MM-DD that name no day of the
\* calendar, such as 2024-13-45: the regular expression accepts it, Date
\* does not) or <<"junk">> (any other text Date cannot parse).
Invalid == <<"__INVALID__">>

toIsoDateString(v) ==
  IF ~IsStr(v) \/ v = <<"blank">> THEN Null
  ELSE IF v[1] \in {"ymd", "ymdx"} THEN v
  ELSE IF v[1] = "iso" THEN <<"ymd", v[2]>>
  ELSE Invalid

toIsoTimestamp(v) ==
  IF ~IsStr(v) \/ v = <<"blank">> THEN Null
  ELSE IF v[1] \in {"ymd", "iso"} THEN <<"iso", v[2]>>
  ELSE Invalid

\* Postgres ILIKE as reached through .ilike(column, pattern): the pattern is
\* matched case-insensitively and "_" in it matches any one character.
ILike(pattern, s) ==
  /\ Len(pattern) = Len(s)
  /\ \A i \in 1..Len(s) : pattern[i] = "_" \/ Lower(pattern[i]) = Lower(s[i])

\* ------------------------------------------------------------------ state
VARIABLES
  contacts,   \* table contacts: row id = index
  companies,  \* table crm_companies: row id = index
  clock,      \* what new Date() reads
  reqs        \* per request in flight: its position, locals and response

vars == <<contacts, companies, clock, reqs>>

\* A JSON body is a record holding the keys it carries.
Get(body, k) == IF k \in DOMAIN body THEN body[k] ELSE Absent

NoFields == [k \in {} |-> Null]

NoResp == [status |-> 0, code |-> "", error |-> "", action |-> "", id |-> NoId,
           data |-> <<>>, nextCursor |-> Null]

Idle == [pc |-> "idle", kind |-> "", org |-> "", body |-> NoFields,
         target |-> Absent, cid |-> NoId, existing |-> NoId, now |-> 0,
         calls |-> 0, coWrites |-> <<>>, ctWrites |-> <<>>, visited |-> <<>>,
         resp |-> NoResp]

Json(status, code, error) ==
  [NoResp EXCEPT !.status = status, !.code = code, !.error = error]

\* return NextResponse.json(...): the handler ends with this response.
Respond(r, resp) == [r EXCEPT !.pc = "done", !.resp = resp]

Live(row) == ~row.deleted

Init ==
  /\ contacts = <<>>
  /\ companies = <<>>
  /\ clock = 0
  /\ reqs = [s \in Slots |-> Idle]

\* -------------------------------------------------------- POST /contacts
\* ContactUpsertSchema (.strict()): known keys only, strings where strings
\* are asked, a well-formed uuid, a number; no key may be null.
UpsertKeys == {"name", "email", "phone", "role", "company_name",
               "client_company_id", "avatar", "status", "stage", "birth_date",
               "last_interaction", "last_purchase_date", "total_value",
               "source", "notes"}

ContactUpsertSchema(body) ==
  /\ DOMAIN body \subseteq UpsertKeys
  /\ \A k \in DOMAIN body : body[k] # Null
  /\ "client_company_id" \in DOMAIN body => isValidUUID(body.client_company_id)

\* A validation that leaves the email-or-phone check to the store.
PostValidateNoKeyCheck(r) ==
  LET b == r.body
      companyName == normalizeText(Get(b, "company_name"))
      clientCompanyId == sanitizeUUID(Get(b, "client_company_id"))
  IN IF ~ContactUpsertSchema(b)
       THEN Respond(r, Json(422, "VALIDATION_ERROR", "Invalid payload"))
     ELSE IF toIsoDateString(Get(b, "birth_date")) = Invalid
       THEN Respond(r, Json(422, "VALIDATION_ERROR", "Invalid birth_date"))
     ELSE IF toIsoDateString(Get(b, "last_purchase_date")) = Invalid
       THEN Respond(r, Json(422, "VALIDATION_ERROR", "Invalid last_purchase_date"))
     ELSE IF toIsoTimestamp(Get(b, "last_interaction")) = Invalid
       THEN Respond(r, Json(422, "VALIDATION_ERROR", "Invalid last_interaction"))
     ELSE IF clientCompanyId = NoId /\ companyName # Null
       THEN [r EXCEPT !.pc = "coLookup"]
     ELSE [r EXCEPT !.pc = "ctLookup", !.cid = clientCompanyId]

\* The first store-free stretch of POST: parse, normalize, validate.
PostValidate(r) ==
  LET b == r.body
      email == normalizeEmail(Get(b, "email"))
      phone == normalizePhone(Get(b, "phone"))
      companyName == normalizeText(Get(b, "company_name"))
      clientCompanyId == sanitizeUUID(Get(b, "client_company_id"))
  IN IF ~ContactUpsertSchema(b)
       THEN Respond(r, Json(422, "VALIDATION_ERROR", "Invalid payload"))
     ELSE IF email = Null /\ phone = Null
       THEN Respond(r, Json(422, "VALIDATION_ERROR", "Provide email or phone"))
     ELSE IF toIsoDateString(Get(b, "birth_date")) = Invalid
       THEN Respond(r, Json(422, "VALIDATION_ERROR", "Invalid birth_date"))
     ELSE IF toIsoDateString(Get(b, "last_purchase_date")) = Invalid
       THEN Respond(r, Json(422, "VALIDATION_ERROR", "Invalid last_purchase_date"))
     ELSE IF toIsoTimestamp(Get(b, "last_interaction")) = Invalid
       THEN Respond(r, Json(422, "VALIDATION_ERROR", "Invalid last_interaction"))
     ELSE IF clientCompanyId = NoId /\ companyName # Null
       THEN [r EXCEPT !.pc = "coLookup"]
     ELSE [r EXCEPT !.pc = "ctLookup", !.cid = clientCompanyId]

\* The rows a PostgREST filter selects, as the set of their ids.
CompanyMatches(org, name) ==
  {i \in DOMAIN companies :
     /\ companies[i].org = org
     /\ Live(companies[i])
     /\ ILike(name, companies[i].name)}

\* A lookup that asks for the email and the phone together.
ContactMatchesBoth(org, email, phone) ==
  {i \in DOMAIN contacts :
     /\ contacts[i].org = org
     /\ Live(contacts[i])
     /\ email # Null => contacts[i].email = email
     /\ phone # Null => contacts[i].phone = phone}

ContactMatches(org, email, phone) ==
  {i \in DOMAIN contacts :
     /\ contacts[i].org = org
     /\ Live(contacts[i])
     /\ IF email # Null /\ phone # Null
          THEN contacts[i].email = email \/ contacts[i].phone = phone
        ELSE IF email # Null THEN contacts[i].email = email
        ELSE IF phone # Null THEN contacts[i].phone = phone
        ELSE TRUE}

TheOne(S) == CHOOSE i \in S : TRUE

\* resolveCompanyIdFromName, first store call: select ... ilike ... maybeSingle.
\* maybeSingle answers an error when more than one row matches; POST's catch
\* turns what resolveCompanyIdFromName throws into a 422.
PostCompanyLookup(s) ==
  LET r == reqs[s]
      name == normalizeText(normalizeText(Get(r.body, "company_name")))
      found == CompanyMatches(r.org, name)
      r1 == [r EXCEPT !.calls = @ + 1]
  IN /\ r.pc = "coLookup"
     /\ reqs' = [reqs EXCEPT ![s] =
          IF Cardinality(found) > 1
            THEN Respond(r1, Json(422, "VALIDATION_ERROR", "multiple rows returned"))
          ELSE IF found # {}
            THEN [r1 EXCEPT !.pc = "ctLookup", !.cid = TheOne(found)]
          ELSE [r1 EXCEPT !.pc = "coInsert", !.now = clock]]
     /\ UNCHANGED <<contacts, companies, clock>>

\* resolveCompanyIdFromName, second store call: insert ... select('id').single().
NewCompany(org, name, now) ==
  [org |-> org, name |-> name, created_at |-> now, updated_at |-> now,
   deleted |-> FALSE]

PostCompanyInsert(s) ==
  LET r == reqs[s]
      name == normalizeText(normalizeText(Get(r.body, "company_name")))
      id == Len(companies) + 1
  IN /\ r.pc = "coInsert"
     /\ Len(companies) < MaxCompanies
     /\ companies' = Append(companies, NewCompany(r.org, name, r.now))
     /\ reqs' = [reqs EXCEPT ![s] =
          [r EXCEPT !.pc = "ctLookup", !.cid = id, !.calls = @ + 1,
                    !.coWrites = Append(@, <<"insert", id>>)]]
     /\ UNCHANGED <<contacts, clock>>

\* A dedup lookup that takes some row when several match.
PostContactLookupAny(s) ==
  LET r == reqs[s]
      email == normalizeEmail(Get(r.body, "email"))
      phone == normalizePhone(Get(r.body, "phone"))
      name == normalizeText(Get(r.body, "name"))
      found == ContactMatches(r.org, email, phone)
      r1 == [r EXCEPT !.calls = @ + 1]
  IN /\ r.pc = "ctLookup"
     /\ \/ /\ found = {}
           /\ reqs' = [reqs EXCEPT ![s] =
                IF name = Null
                  THEN Respond(r1, Json(422, "VALIDATION_ERROR",
                                        "Name is required to create a new contact"))
                ELSE [r1 EXCEPT !.pc = "ctWrite", !.existing = NoId, !.now = clock]]
        \/ \E i \in found :
             reqs' = [reqs EXCEPT ![s] =
               [r1 EXCEPT !.pc = "ctWrite", !.existing = i, !.now = clock]]
     /\ UNCHANGED <<contacts, companies, clock>>

\* The dedup lookup: select('id') ... maybeSingle(), then now = new Date() and
\* the choice of path, the name check of the create path included.
PostContactLookup(s) ==
  LET r == reqs[s]
      email == normalizeEmail(Get(r.body, "email"))
      phone == normalizePhone(Get(r.body, "phone"))
      name == normalizeText(Get(r.body, "name"))
      found == ContactMatches(r.org, email, phone)
      r1 == [r EXCEPT !.calls = @ + 1]
  IN /\ r.pc = "ctLookup"
     /\ reqs' = [reqs EXCEPT ![s] =
          IF Cardinality(found) > 1
            THEN Respond(r1, Json(500, "DB_ERROR", "multiple rows returned"))
          ELSE IF found # {}
            THEN [r1 EXCEPT !.pc = "ctWrite", !.existing = TheOne(found),
                            !.now = clock]
          ELSE IF name = Null
            THEN Respond(r1, Json(422, "VALIDATION_ERROR",
                                  "Name is required to create a new contact"))
          ELSE [r1 EXCEPT !.pc = "ctWrite", !.existing = NoId, !.now = clock]]
     /\ UNCHANGED <<contacts, companies, clock>>

\* A payload that sends only the keys whose value is not null.
PostPayloadSparse(r) ==
  LET b == r.body
      Sent(k, v) == IF v = Null THEN NoFields ELSE [x \in {k} |-> v]
  IN [org |-> r.org, client_company_id |-> r.cid, updated_at |-> r.now]
     @@ Sent("email", normalizeEmail(Get(b, "email")))
     @@ Sent("phone", normalizePhone(Get(b, "phone")))
     @@ Sent("role", normalizeText(Get(b, "role")))
     @@ Sent("company_name", normalizeText(Get(b, "company_name")))
     @@ Sent("avatar", normalizeText(Get(b, "avatar")))
     @@ Sent("status", normalizeText(Get(b, "status")))
     @@ Sent("stage", normalizeText(Get(b, "stage")))
     @@ Sent("source", normalizeText(Get(b, "source")))
     @@ Sent("notes", normalizeText(Get(b, "notes")))
     @@ Sent("birth_date", toIsoDateString(Get(b, "birth_date")))
     @@ Sent("last_interaction", toIsoTimestamp(Get(b, "last_interaction")))
     @@ Sent("last_purchase_date", toIsoDateString(Get(b, "last_purchase_date")))
     @@ (IF "total_value" \in DOMAIN b
           THEN [total_value |-> b.total_value] ELSE NoFields)

\* payload: what both paths send; a key whose value is undefined is not sent.
PostPayload(r) ==
  LET b == r.body
  IN [org |-> r.org,
      email |-> normalizeEmail(Get(b, "email")),
      phone |-> normalizePhone(Get(b, "phone")),
      role |-> normalizeText(Get(b, "role")),
      company_name |-> normalizeText(Get(b, "company_name")),
      client_company_id |-> r.cid,
      avatar |-> normalizeText(Get(b, "avatar")),
      status |-> normalizeText(Get(b, "status")),
      stage |-> normalizeText(Get(b, "stage")),
      source |-> normalizeText(Get(b, "source")),
      notes |-> normalizeText(Get(b, "notes")),
      birth_date |-> toIsoDateString(Get(b, "birth_date")),
      last_interaction |-> toIsoTimestamp(Get(b, "last_interaction")),
      last_purchase_date |-> toIsoDateString(Get(b, "last_purchase_date")),
      updated_at |-> r.now]
     @@ (IF "total_value" \in DOMAIN b
           THEN [total_value |-> b.total_value] ELSE NoFields)

\* An update payload that carries created_at, as the insert payload does.
UpdatePayloadStamped(r) ==
  LET name == normalizeText(Get(r.body, "name"))
  IN [created_at |-> r.now]
     @@ (IF name # Null THEN [name |-> name] ELSE NoFields) @@ PostPayload(r)

UpdatePayload(r) ==
  LET name == normalizeText(Get(r.body, "name"))
  IN (IF name # Null THEN [name |-> name] ELSE NoFields) @@ PostPayload(r)

InsertPayload(r) ==
  [name |-> normalizeText(Get(r.body, "name")), created_at |-> r.now,
   status |-> <<"A", "C", "T", "I", "V", "E">>, stage |-> <<"L", "E", "A", "D">>]
  @@ PostPayload(r)

\* Column defaults of a fresh contacts row.
ContactDefaults == [total_value |-> Null, deleted |-> FALSE]

\* update(payload): the keys sent overwrite, the others stay.
ApplyUpdate(row, payload) == payload @@ row

\* The one write of POST: update ... eq('id', existing) ... single(), or
\* insert ... single().
PostContactWrite(s) ==
  LET r == reqs[s]
      id == Len(contacts) + 1
  IN /\ r.pc = "ctWrite"
     /\ IF r.existing # NoId
          THEN /\ contacts' = [contacts EXCEPT ![r.existing] =
                                 ApplyUpdate(@, UpdatePayload(r))]
               /\ reqs' = [reqs EXCEPT ![s] =
                    Respond([r EXCEPT !.calls = @ + 1,
                                      !.ctWrites = Append(@, <<"update", r.existing>>)],
                            [NoResp EXCEPT !.status = 200, !.action = "updated",
                                           !.id = r.existing])]
          ELSE /\ Len(contacts) < MaxContacts
               /\ contacts' = Append(contacts, InsertPayload(r) @@ ContactDefaults)
               /\ reqs' = [reqs EXCEPT ![s] =
                    Respond([r EXCEPT !.calls = @ + 1,
                                      !.ctWrites = Append(@, <<"insert", id>>)],
                            [NoResp EXCEPT !.status = 201, !.action = "created",
                                           !.id = id])]
     /\ UNCHANGED <<companies, clock>>

\* authPublicApi: a credential resolves to one organization, or the request
\* ends with the collaborator's own answer.
authPublicApi(cred) ==
  IF cred \in Orgs THEN [ok |-> TRUE, organizationId |-> cred]
  ELSE [ok |-> FALSE, organizationId |-> ""]

\* A request takes the first free handler.
Free(s) == reqs[s].pc = "idle" /\ \A t \in Slots : t < s => reqs[t].pc # "idle"

PostStart(s, cred, body) ==
  LET auth == authPublicApi(cred)
      r == [Idle EXCEPT !.kind = "POST", !.org = auth.organizationId, !.body = body]
  IN /\ Free(s)
     /\ reqs' = [reqs EXCEPT ![s] =
          IF ~auth.ok THEN Respond(r, Json(401, "UNAUTHORIZED", "auth"))
          ELSE PostValidate(r)]
     /\ UNCHANGED <<contacts, companies, clock>>

\* ------------------------------------------------ PATCH /contacts/{id}
NullableKeys == {"client_company_id", "birth_date", "last_interaction",
                 "last_purchase_date", "total_value"}

ContactPatchSchema(body) ==
  /\ DOMAIN body \subseteq UpsertKeys
  /\ \A k \in DOMAIN body : body[k] = Null => k \in NullableKeys
  /\ "client_company_id" \in DOMAIN body =>
       body.client_company_id = Null \/ isValidUUID(body.client_company_id)

Field(b, k, v) == IF k \in DOMAIN b THEN [x \in {k} |-> v] ELSE NoFields

\* updates: one key per key of the body, normalized.
\* Updates that always carry name, normalized from a body that may lack it.
PatchUpdatesWithName(b, now) ==
  [name |-> normalizeText(Get(b, "name"))]
  @@ Field(b, "email", normalizeEmail(Get(b, "email")))
  @@ Field(b, "phone", normalizePhone(Get(b, "phone")))
  @@ Field(b, "role", normalizeText(Get(b, "role")))
  @@ Field(b, "company_name", normalizeText(Get(b, "company_name")))
  @@ Field(b, "avatar", normalizeText(Get(b, "avatar")))
  @@ Field(b, "status", normalizeText(Get(b, "status")))
  @@ Field(b, "stage", normalizeText(Get(b, "stage")))
  @@ Field(b, "source", normalizeText(Get(b, "source")))
  @@ Field(b, "notes", normalizeText(Get(b, "notes")))
  @@ Field(b, "client_company_id", sanitizeUUID(Get(b, "client_company_id")))
  @@ Field(b, "birth_date", toIsoDateString(Get(b, "birth_date")))
  @@ Field(b, "last_purchase_date", toIsoDateString(Get(b, "last_purchase_date")))
  @@ Field(b, "last_interaction", toIsoTimestamp(Get(b, "last_interaction")))
  @@ Field(b, "total_value", Get(b, "total_value"))
  @@ [updated_at |-> now]

PatchUpdates(b, now) ==
  Field(b, "name", normalizeText(Get(b, "name")))
  @@ Field(b, "email", normalizeEmail(Get(b, "email")))
  @@ Field(b, "phone", normalizePhone(Get(b, "phone")))
  @@ Field(b, "role", normalizeText(Get(b, "role")))
  @@ Field(b, "company_name", normalizeText(Get(b, "company_name")))
  @@ Field(b, "avatar", normalizeText(Get(b, "avatar")))
  @@ Field(b, "status", normalizeText(Get(b, "status")))
  @@ Field(b, "stage", normalizeText(Get(b, "stage")))
  @@ Field(b, "source", normalizeText(Get(b, "source")))
  @@ Field(b, "notes", normalizeText(Get(b, "notes")))
  @@ Field(b, "client_company_id", sanitizeUUID(Get(b, "client_company_id")))
  @@ Field(b, "birth_date", toIsoDateString(Get(b, "birth_date")))
  @@ Field(b, "last_purchase_date", toIsoDateString(Get(b, "last_purchase_date")))
  @@ Field(b, "last_interaction", toIsoTimestamp(Get(b, "last_interaction")))
  @@ Field(b, "total_value", Get(b, "total_value"))
  @@ [updated_at |-> now]

\* The rows update(...).eq('organization_id', org).eq('id', contactId) reaches.
PatchMatches(org, id) ==
  {i \in DOMAIN contacts : contacts[i].org = org /\ i = id}

\* PATCH validates without touching the store and then makes its one store
\* call, update ... maybeSingle().
Patch(s, cred, contactId, body) ==
  LET auth == authPublicApi(cred)
      r == [Idle EXCEPT !.kind = "PATCH", !.org = auth.organizationId,
                        !.body = body, !.target = contactId, !.now = clock]
      updates == PatchUpdates(body, clock)
      hit == PatchMatches(auth.organizationId, sanitizeUUID(contactId))
      early ==
        IF ~auth.ok THEN Json(401, "UNAUTHORIZED", "auth")
        ELSE IF ~isValidUUID(contactId)
          THEN Json(422, "VALIDATION_ERROR", "Invalid contact id")
        ELSE IF ~ContactPatchSchema(body)
          THEN Json(422, "VALIDATION_ERROR", "Invalid payload")
        ELSE IF Get(updates, "birth_date") = Invalid
          THEN Json(422, "VALIDATION_ERROR", "Invalid birth_date")
        ELSE IF Get(updates, "last_purchase_date") = Invalid
          THEN Json(422, "VALIDATION_ERROR", "Invalid last_purchase_date")
        ELSE IF Get(updates, "last_interaction") = Invalid
          THEN Json(422, "VALIDATION_ERROR", "Invalid last_interaction")
        ELSE NoResp
  IN /\ Free(s)
     /\ IF early # NoResp
          THEN /\ reqs' = [reqs EXCEPT ![s] = Respond(r, early)]
               /\ UNCHANGED contacts
        ELSE IF hit = {}
          THEN /\ reqs' = [reqs EXCEPT ![s] =
                    Respond([r EXCEPT !.calls = 1],
                            Json(404, "NOT_FOUND", "Contact not found"))]
               /\ UNCHANGED contacts
        ELSE /\ contacts' = [contacts EXCEPT ![TheOne(hit)] = ApplyUpdate(@, updates)]
             /\ reqs' = [reqs EXCEPT ![s] =
                  Respond([r EXCEPT !.calls = 1,
                                    !.ctWrites = <<<<"update", TheOne(hit)>>>>],
                          [NoResp EXCEPT !.status = 200, !.id = TheOne(hit)])]
     /\ UNCHANGED <<companies, clock>>

\* -------------------------------------------------- GET /contacts/{id}
GetOne(s, cred, contactId) ==
  LET auth == authPublicApi(cred)
      r == [Idle EXCEPT !.kind = "GET1", !.org = auth.organizationId,
                        !.target = contactId]
      hit == {i \in DOMAIN contacts :
                /\ contacts[i].org = auth.organizationId
                /\ Live(contacts[i])
                /\ i = sanitizeUUID(contactId)}
  IN /\ Free(s)
     /\ reqs' = [reqs EXCEPT ![s] =
          IF ~auth.ok THEN Respond(r, Json(401, "UNAUTHORIZED", "auth"))
          ELSE IF ~isValidUUID(contactId)
            THEN Respond(r, Json(422, "VALIDATION_ERROR", "Invalid contact id"))
          ELSE IF hit = {}
            THEN Respond([r EXCEPT !.calls = 1],
                         Json(404, "NOT_FOUND", "Contact not found"))
          ELSE Respond([r EXCEPT !.calls = 1],
                       [NoResp EXCEPT !.status = 200, !.id = TheOne(hit)])]
     /\ UNCHANGED <<contacts, companies, clock>>

\* ------------------------------------------------------- GET /contacts
\* lib/public-api/cursor: the offset as an opaque token (its decimal digits);
\* an absent or malformed token decodes to 0.
Digits == <<"0", "1", "2", "3", "4", "5", "6", "7", "8", "9">>

DigitOf(c) == (CHOOSE d \in 1..10 : Digits[d] = c) - 1

RECURSIVE encodeOffsetCursor(_)
encodeOffsetCursor(n) ==
  IF n < 10 THEN <<Digits[n + 1]>>
  ELSE Append(encodeOffsetCursor(n \div 10), Digits[(n % 10) + 1])

RECURSIVE DecimalValue(_)
DecimalValue(t) ==
  IF t = <<>> THEN 0
  ELSE 10 * DecimalValue(SubSeq(t, 1, Len(t) - 1)) + DigitOf(t[Len(t)])

decodeOffsetCursor(t) ==
  IF ~IsStr(t) \/ t = <<>> THEN 0
  ELSE IF \A i \in 1..Len(t) : \E d \in 1..10 : Digits[d] = t[i]
    THEN DecimalValue(t)
  ELSE 0

\* lib/public-api/cursor: the page size, clamped to a fixed range.
LimitMin == 1
LimitMax == 3
LimitDefault == 2

parseLimit(v) ==
  IF ~IsStr(v) \/ v[1] # "num" THEN LimitDefault
  ELSE IF v[2] < LimitMin THEN LimitMin
  ELSE IF v[2] > LimitMax THEN LimitMax
  ELSE v[2]

\* column ILIKE %q%; a NULL column matches nothing.
ILikeContains(v, q) ==
  /\ v # Null
  /\ \E i \in 1..(Len(v) - Len(q) + 1) : ILike(q, SubSeq(v, i, i + Len(q) - 1))

ListMatches(org, params) ==
  LET q == Trim(IF IsStr(Get(params, "q")) THEN params.q ELSE <<>>)
      email == normalizeEmail(Get(params, "email"))
      phone == normalizePhone(Get(params, "phone"))
      clientCompanyId == sanitizeUUID(Get(params, "client_company_id"))
  IN {i \in DOMAIN contacts :
        /\ contacts[i].org = org
        /\ Live(contacts[i])
        /\ clientCompanyId # NoId => contacts[i].client_company_id = clientCompanyId
        /\ email # Null => contacts[i].email = email
        /\ phone # Null => contacts[i].phone = phone
        /\ q # <<>> => \/ ILikeContains(contacts[i].name, q)
                       \/ ILikeContains(contacts[i].email, q)
                       \/ ILikeContains(contacts[i].phone, q)}

\* order('created_at', descending): rows of equal created_at come in an order
\* the store is free to choose anew for every query.
Orderings(M) ==
  {f \in [1..Cardinality(M) -> M] :
     /\ \A i, j \in 1..Cardinality(M) : i # j => f[i] # f[j]
     /\ \A i, j \in 1..Cardinality(M) :
          i < j => contacts[f[i]].created_at >= contacts[f[j]].created_at}

Min(a, b) == IF a < b THEN a ELSE b

\* range(from, to) over the ordered rows, both ends inclusive and 0-based.
Range(rows, from, to) == SubSeq(rows, from + 1, Min(to + 1, Len(rows)))

ListResponse(rows, params) ==
  LET limit == parseLimit(Get(params, "limit"))
      offset == decodeOffsetCursor(Get(params, "cursor"))
      from == offset
      to == offset + limit - 1
      total == Len(rows)
      nextOffset == to + 1
  IN [NoResp EXCEPT !.status = 200, !.data = Range(rows, from, to),
        !.nextCursor = IF nextOffset < total THEN encodeOffsetCursor(nextOffset)
                       ELSE Null]

ListRun(s, cred, params, before) ==
  LET auth == authPublicApi(cred)
      r == [Idle EXCEPT !.kind = "GET", !.org = auth.organizationId, !.body = params]
  IN IF ~auth.ok
       THEN reqs' = [reqs EXCEPT ![s] = Respond(r, Json(401, "UNAUTHORIZED", "auth"))]
     ELSE \E rows \in Orderings(ListMatches(auth.organizationId, params)) :
            LET resp == ListResponse(rows, params)
            IN reqs' = [reqs EXCEPT ![s] =
                 Respond([r EXCEPT !.calls = 1, !.visited = before \o resp.data], resp)]

GetList(s, cred, params) ==
  /\ Free(s)
  /\ ListRun(s, cred, params, <<>>)
  /\ UNCHANGED <<contacts, companies, clock>>

\* The caller asks for the next page with the nextCursor it was given.
GetNextPage(s) ==
  LET r == reqs[s]
  IN /\ r.pc = "done" /\ r.kind = "GET" /\ r.resp.status = 200
     /\ r.resp.nextCursor # Null
     /\ ListRun(s, r.org, [cursor |-> r.resp.nextCursor] @@ r.body, r.visited)
     /\ UNCHANGED <<contacts, companies, clock>>

\* ---------------------------------------------------------- environment
\* The response is delivered and the handler is free again.
Deliver(s) ==
  /\ reqs[s].pc = "done"
  /\ reqs' = [reqs EXCEPT ![s] = Idle]
  /\ UNCHANGED <<contacts, companies, clock>>

\* The application marks a contact deleted (deleted_at is set).
SoftDelete(i) ==
  /\ i \in DOMAIN contacts
  /\ Live(contacts[i])
  /\ contacts' = [contacts EXCEPT ![i].deleted = TRUE]
  /\ UNCHANGED <<companies, clock, reqs>>

\* Time passes between two readings of new Date().
Tick ==
  /\ clock < MaxClock
  /\ clock' = clock + 1
  /\ UNCHANGED <<contacts, companies, reqs>>

\* ---------------------------------------------------------- the callers
PostStep(s) ==
  \/ PostCompanyLookup(s)
  \/ PostCompanyInsert(s)
  \/ PostContactLookup(s)
  \/ PostContactWrite(s)

PostContactStep(s) ==
  \/ PostContactLookup(s)
  \/ PostContactWrite(s)

\* A response is delivered before anything else happens.
Quiet == \A s \in Slots : reqs[s].pc # "done"

\* No request is in flight: the next one overlaps none.
AllIdle == \A s \in Slots : reqs[s].pc = "idle"

\* Spec: POST /contacts by two tenants, two requests at a time, with company
\* names (one of them an ILIKE pattern) and a company id given directly.
PostBodies ==
  { [name |-> <<"n">>, email |-> <<"a">>],
    [email |-> <<" ", "A">>, company_name |-> <<"a", "a">>],
    [name |-> <<"n">>, company_name |-> <<"a", "a">>],
    [name |-> <<"n">>, phone |-> <<"1">>, client_company_id |-> <<"uuid", 1>>] }

Next ==
  \/ \E s \in Slots : Deliver(s)
  \/ /\ Quiet
     /\ \/ \E s \in Slots, cred \in Orgs, body \in PostBodies :
             PostStart(s, cred, body)
        \/ \E s \in Slots : PostStep(s)

Spec == Init /\ [][Next]_vars

\* SpecSeq: requests of two tenants that do not overlap, one after the
\* other.  The bodies vary the fields around one email and give a phone of
\* its own to a second contact.
SeqBodies ==
  { [name |-> <<"n">>, email |-> <<"a">>],
    [name |-> <<"m">>, email |-> <<" ", "A">>],
    [name |-> <<"n">>, phone |-> <<"1">>],
    [name |-> <<"k">>, email |-> <<"a">>, phone |-> <<"1", "-">>] }

NextSeq ==
  \/ \E s \in Slots : Deliver(s)
  \/ /\ AllIdle
     /\ \E s \in Slots, cred \in Orgs, body \in SeqBodies : PostStart(s, cred, body)
  \/ /\ Quiet
     /\ \E s \in Slots : PostContactStep(s)

SpecSeq == Init /\ [][NextSeq]_vars

\* SpecResolve: requests that do not overlap and name companies, by a plain
\* name and by names that are ILIKE patterns.
ResolveBodies ==
  { [name |-> <<"n">>, email |-> <<"a">>, company_name |-> <<"a", "a">>],
    [email |-> <<"a">>, company_name |-> <<"A", "a", " ">>],
    [email |-> <<"a">>, company_name |-> <<"a", "_">>],
    [email |-> <<"a">>, company_name |-> <<"A", "_">>] }

NextResolve ==
  \/ \E s \in Slots : Deliver(s)
  \/ /\ AllIdle
     /\ \E s \in Slots, cred \in Orgs, body \in ResolveBodies :
          PostStart(s, cred, body)
  \/ /\ Quiet
     /\ \E s \in Slots : PostStep(s)

SpecResolve == Init /\ [][NextResolve]_vars

\* SpecUpsert: POST /contacts, two requests at a time, while time passes.
\* The bodies create by email, come back with the email in another spelling
\* and a phone, carry a phone alone, and carry neither (only blanks).
UpsertBodies ==
  { [name |-> <<"n">>, email |-> <<"a">>],
    [name |-> <<"m">>, email |-> <<" ", "A">>, phone |-> <<"1">>],
    [phone |-> <<"1", "-">>],
    [name |-> <<"n">>, email |-> <<" ">>, phone |-> <<"-">>,
     company_name |-> <<"a", "a">>] }

UpsertCreds == {"o1"}

NextUpsert ==
  \/ \E s \in Slots : Deliver(s)
  \/ /\ Quiet
     /\ \/ \E s \in Slots, cred \in UpsertCreds, body \in UpsertBodies :
             PostStart(s, cred, body)
        \/ \E s \in Slots : PostContactStep(s)
        \/ Tick

SpecUpsert == Init /\ [][NextUpsert]_vars

\* SpecPatch: one tenant creates two contacts, both tenants patch them by
\* id while time passes.  The bodies set a text field, set and clear the
\* nullable fields, carry an unparsable timestamp, and break the schema.
SeedBodies ==
  { [name |-> <<"n">>, email |-> <<"a">>],
    [name |-> <<"n">>, phone |-> <<"2">>] }

PatchBodies ==
  { [name |-> <<" ", "m">>],
    [client_company_id |-> <<"uuid", 1>>, birth_date |-> <<"iso", 1>>,
     total_value |-> <<"num", 5>>],
    [client_company_id |-> Null, birth_date |-> Null, last_interaction |-> Null,
     last_purchase_date |-> Null, total_value |-> Null],
    [phone |-> <<"1">>, last_interaction |-> <<"junk">>],
    [name |-> Null] }

ContactIds == {<<"uuid", 1>>, <<"uuid", 2>>, <<"baduuid">>}

\* Who patches what: the owner its two contacts and a malformed id, the
\* other tenant the owner's first contact.
PatchCalls ==
  {<<"o1", <<"uuid", 1>>>>, <<"o1", <<"uuid", 2>>>>, <<"o1", <<"baduuid">>>>,
   <<"o2", <<"uuid", 1>>>>}

NextPatch ==
  \/ \E s \in Slots : Deliver(s)
  \/ /\ Quiet
     /\ \/ /\ AllIdle
           /\ \E s \in Slots, body \in SeedBodies : PostStart(s, "o1", body)
        \/ \E s \in Slots : PostContactStep(s)
        \/ \E s \in Slots, call \in PatchCalls, body \in PatchBodies :
             Patch(s, call[1], call[2], body)
        \/ Tick

SpecPatch == Init /\ [][NextPatch]_vars

\* SpecDelete: a tenant creates a contact, the contact is deleted, and both
\* tenants read, list, patch and upsert.
DeleteBodies == { [name |-> <<"n">>, email |-> <<"a">>] }

DeletePatches == { [name |-> <<"m">>] }

DeleteLists == { [limit |-> <<"num", 1>>], [email |-> <<"A">>] }

NextDelete ==
  \/ \E s \in Slots : Deliver(s)
  \/ /\ Quiet
     /\ \/ /\ AllIdle
           /\ \E s \in Slots, body \in DeleteBodies : PostStart(s, "o1", body)
        \/ \E s \in Slots : PostContactStep(s)
        \/ \E s \in Slots, cred \in Orgs, id \in ContactIds, body \in DeletePatches :
             Patch(s, cred, id, body)
        \/ \E s \in Slots, cred \in Orgs, id \in ContactIds : GetOne(s, cred, id)
        \/ \E s \in Slots, cred \in Orgs, params \in DeleteLists :
             GetList(s, cred, params)
        \/ /\ AllIdle
           /\ \E i \in DOMAIN contacts : SoftDelete(i)

SpecDelete == Init /\ [][NextDelete]_vars

\* SpecPage: a tenant creates contacts, one request after the other, and a
\* caller pages through them: the first GET without a usable cursor, each
\* next one with the nextCursor of the answer before.  No write runs while
\* a listing is being followed.
PageBodies ==
  { [name |-> <<"n">>, email |-> <<"a">>],
    [name |-> <<"n">>, email |-> <<"b">>] }

PageLists ==
  { [limit |-> <<"num", 1>>],
    [limit |-> <<"num", 1>>, q |-> <<"N">>, cursor |-> <<"x">>],
    [limit |-> <<"num", 9>>] }

NextPage ==
  \/ \E s \in Slots : Deliver(s)
  \/ \E s \in Slots : GetNextPage(s)
  \/ /\ AllIdle
     /\ \/ \E s \in Slots, body \in PageBodies : PostStart(s, "o1", body)
        \/ \E s \in Slots, cred \in Orgs, params \in PageLists :
             GetList(s, cred, params)
        \/ Tick
  \/ /\ Quiet
     /\ \E s \in Slots : PostContactStep(s)

SpecPage == Init /\ [][NextPage]_vars

\* ------------------------------------------------- dates at the store
DateKeys == {"birth_date", "last_purchase_date", "last_interaction"}

\* A payload sends a date the calendar does not have.
SendsNoCalendarDate(payload) ==
  \E k \in DateKeys : Get(payload, k) = <<"ymdx">>

\* The contacts table is created outside these sources: a date column
\* refuses such a value (the write fails), a text column stores it as sent
\* (PostContactWrite, Patch).  This is the refusal, for the write of POST.
PostContactWriteRejected(s) ==
  LET r == reqs[s]
      payload == IF r.existing # NoId THEN UpdatePayload(r) ELSE InsertPayload(r)
  IN /\ r.pc = "ctWrite"
     /\ SendsNoCalendarDate(payload)
     /\ reqs' = [reqs EXCEPT ![s] =
          Respond([r EXCEPT !.calls = @ + 1],
                  Json(500, "DB_ERROR", "invalid input syntax for type date"))]
     /\ UNCHANGED <<contacts, companies, clock>>

\* The refusal, for the one store call of PATCH.
PatchRejected(s, cred, contactId, body) ==
  LET auth == authPublicApi(cred)
      r == [Idle EXCEPT !.kind = "PATCH", !.org = auth.organizationId,
                        !.body = body, !.target = contactId, !.now = clock]
      updates == PatchUpdates(body, clock)
  IN /\ Free(s)
     /\ auth.ok /\ isValidUUID(contactId) /\ ContactPatchSchema(body)
     /\ \A k \in DateKeys : Get(updates, k) # Invalid
     /\ SendsNoCalendarDate(updates)
     /\ reqs' = [reqs EXCEPT ![s] =
          Respond([r EXCEPT !.calls = 1],
                  Json(500, "DB_ERROR", "invalid input syntax for type date"))]
     /\ UNCHANGED <<contacts, companies, clock>>

\* SpecDates: one tenant creates and patches contacts, one request after
\* the other, with date fields of every kind.
DateBodies ==
  { [name |-> <<"n">>, email |-> <<"a">>, birth_date |-> <<"ymd", 1>>],
    [name |-> <<"n">>, email |-> <<"a">>, birth_date |-> <<"junk">>],
    [name |-> <<"n">>, email |-> <<"b">>, last_purchase_date |-> <<"junk">>],
    [name |-> <<"n">>, email |-> <<"b">>, last_interaction |-> <<"ymdx">>],
    [name |-> <<"n">>, email |-> <<"b">>, last_purchase_date |-> <<"ymdx">>,
     last_interaction |-> <<"iso", 1>>] }

DatePatches ==
  { [birth_date |-> <<"junk">>],
    [last_interaction |-> <<"junk">>, name |-> <<"m">>],
    [birth_date |-> <<"ymdx">>],
    [last_purchase_date |-> <<"iso", 1>>, birth_date |-> Null] }

NextDates ==
  \/ \E s \in Slots : Deliver(s)
  \/ /\ AllIdle
     /\ \/ \E s \in Slots, body \in DateBodies : PostStart(s, "o1", body)
        \/ \E s \in Slots, id \in 1..MaxContacts, body \in DatePatches :
             \/ Patch(s, "o1", <<"uuid", id>>, body)
             \/ PatchRejected(s, "o1", <<"uuid", id>>, body)
        \/ Tick
  \/ /\ Quiet
     /\ \E s \in Slots : PostContactStep(s) \/ PostContactWriteRejected(s)

SpecDates == Init /\ [][NextDates]_vars

\* ------------------------------------------------------ store failures
\* The message of an error the store adapter reports (an outage, a timeout).
AdapterMessage == "connection refused"

\* A store call of POST comes back with { error }: the call has changed
\* nothing.  resolveCompanyIdFromName throws it and POST's catch answers 422
\* VALIDATION_ERROR with e.message; the contact calls answer 500 DB_ERROR.
PostStoreError(s) ==
  LET r == reqs[s]
      r1 == [r EXCEPT !.calls = @ + 1]
  IN /\ r.pc \in {"coLookup", "coInsert", "ctLookup", "ctWrite"}
     /\ reqs' = [reqs EXCEPT ![s] =
          IF r.pc \in {"coLookup", "coInsert"}
            THEN Respond(r1, Json(422, "VALIDATION_ERROR", AdapterMessage))
          ELSE Respond(r1, Json(500, "DB_ERROR", AdapterMessage))]
     /\ UNCHANGED <<contacts, companies, clock>>

\* SpecFail: one tenant posts contacts, one request after the other, and any
\* store call may fail.
FailBodies ==
  { [name |-> <<"n">>, email |-> <<"a">>],
    [name |-> <<"n">>, email |-> <<"b">>, company_name |-> <<"a", "a">>],
    [phone |-> <<"1">>, company_name |-> <<"b">>],
    [name |-> <<"m">>, email |-> <<"a">>, phone |-> <<"1">>] }

NextFail ==
  \/ \E s \in Slots : Deliver(s)
  \/ /\ AllIdle
     /\ \E s \in Slots, body \in FailBodies : PostStart(s, "o1", body)
  \/ /\ Quiet
     /\ \E s \in Slots : PostStep(s) \/ PostStoreError(s)

SpecFail == Init /\ [][NextFail]_vars

\* SpecKeys: one tenant upserts and patches contacts, one request after the
\* other; the bodies set, share and clear the email and the phone.
KeyBodies ==
  { [name |-> <<"n">>, email |-> <<"a">>],
    [name |-> <<"n">>, email |-> <<"b">>, phone |-> <<"1">>],
    [name |-> <<"m">>, phone |-> <<"1">>],
    [email |-> <<"A">>, phone |-> <<"2">>] }

KeyPatches ==
  { [email |-> <<"B">>],
    [email |-> <<" ">>],
    [phone |-> <<"-">>, name |-> <<"m">>],
    [phone |-> <<"1">>] }

NextKeys ==
  \/ \E s \in Slots : Deliver(s)
  \/ /\ AllIdle
     /\ \/ \E s \in Slots, body \in KeyBodies : PostStart(s, "o1", body)
        \/ \E s \in Slots, id \in 1..MaxContacts, body \in KeyPatches :
             Patch(s, "o1", <<"uuid", id>>, body)
  \/ /\ Quiet
     /\ \E s \in Slots : PostContactStep(s)

SpecKeys == Init /\ [][NextKeys]_vars

\* SpecFrame: one tenant upserts contacts, one request after the other,
\* with bodies that give, omit and blank the fields of a contact, name a
\* company and give a company id.
FrameBodies ==
  { [name |-> <<"n">>, email |-> <<"a">>, phone |-> <<"1">>, role |-> <<"a">>,
     status |-> <<"b">>, stage |-> <<"b">>, total_value |-> <<"num", 5>>,
     birth_date |-> <<"ymd", 1>>],
    [email |-> <<"A", " ">>],
    [name |-> <<" ">>, phone |-> <<"1">>, company_name |-> <<"a", "a">>,
     last_interaction |-> <<"ymd", 1>>, total_value |-> <<"num", 7>>],
    [name |-> <<"m">>, email |-> <<"a">>, client_company_id |-> <<"uuid", 1>>,
     notes |-> <<"b">>] }

NextFrame ==
  \/ \E s \in Slots : Deliver(s)
  \/ /\ AllIdle
     /\ \/ \E s \in Slots, body \in FrameBodies : PostStart(s, "o1", body)
        \/ Tick
  \/ /\ Quiet
     /\ \E s \in Slots : PostStep(s)

SpecFrame == Init /\ [][NextFrame]_vars

\* ------------------------------------------------------------- claims
IsPost(r) == r.kind = "POST" /\ r.pc # "idle"

Answered(r) == r.pc = "done"

\* C2: in every reachable state, interleavings of concurrent POST requests
\* included, no two non-deleted crm_companies rows of one organization have
\* names that are equal up to letter case.
C2_OneCompanyPerName ==
  \A i, j \in DOMAIN companies :
    (/\ i # j
     /\ companies[i].org = companies[j].org
     /\ Live(companies[i]) /\ Live(companies[j]))
    => LowerStr(companies[i].name) # LowerStr(companies[j].name)

\* C5: a request answered with a validation error made no store call before
\* that answer and wrote nothing, no company row in particular.
C5_ValidationErrorBeforeAnyStoreCall ==
  \A s \in Slots :
    (Answered(reqs[s]) /\ reqs[s].resp.code = "VALIDATION_ERROR")
    => /\ reqs[s].calls = 0
       /\ reqs[s].coWrites = <<>>
       /\ reqs[s].ctWrites = <<>>

\* C8: no contact references a company of another organization.
C8_NoCrossTenantCompany ==
  \A i \in DOMAIN contacts :
    LET c == contacts[i].client_company_id
    IN c \in DOMAIN companies => companies[c].org = contacts[i].org

Upper(c) == IF c = "a" THEN "A" ELSE IF c = "b" THEN "B" ELSE c

\* The strings that differ from name only by letter case.
CaseVariants(name) ==
  {v \in [1..Len(name) -> {name[i] : i \in 1..Len(name)}
                          \cup {Lower(name[i]) : i \in 1..Len(name)}
                          \cup {Upper(name[i]) : i \in 1..Len(name)}] :
     LowerStr(v) = LowerStr(name)}

LiveWithEmail(org, e) ==
  {i \in DOMAIN contacts :
     contacts[i].org = org /\ Live(contacts[i]) /\ contacts[i].email = e}

LiveWithPhone(org, p) ==
  {i \in DOMAIN contacts :
     contacts[i].org = org /\ Live(contacts[i]) /\ contacts[i].phone = p}

ReqEmail(r) == normalizeEmail(Get(r.body, "email"))

ReqPhone(r) == normalizePhone(Get(r.body, "phone"))

\* A POST that passed validation, carries an email and has been answered.
UpsertByEmailAnswered(r) ==
  /\ IsPost(r) /\ Answered(r)
  /\ ReqEmail(r) # Null
  /\ r.resp.code # "VALIDATION_ERROR"

ResolvedName(r) == normalizeText(Get(r.body, "company_name"))

\* resolveCompanyIdFromName has just ended for this request.
ResolveEnded(r) ==
  /\ IsPost(r)
  /\ \/ r.pc = "ctLookup" /\ r.calls >= 1
     \/ Answered(r) /\ r.calls = 1 /\ r.resp.error = "multiple rows returned"

\* C3: a call of resolveCompanyIdFromName returns a company id, and a call
\* that follows it with any name differing only by letter case finds that
\* same company.
C3_SameCompanyForCaseVariants ==
  \A s \in Slots :
    ResolveEnded(reqs[s]) =>
      /\ reqs[s].pc = "ctLookup"
      /\ \A v \in CaseVariants(ResolvedName(reqs[s])) :
           CompanyMatches(reqs[s].org, v) = {reqs[s].cid}

\* C6: a POST whose normalized email and phone are both absent is answered
\* 422 VALIDATION_ERROR, and no store call, insert or update was made for it,
\* whatever else the body carries.
C6_NeitherEmailNorPhone ==
  \A s \in Slots :
    (IsPost(reqs[s]) /\ ReqEmail(reqs[s]) = Null /\ ReqPhone(reqs[s]) = Null)
    => /\ Answered(reqs[s])
       /\ reqs[s].resp.status = 422
       /\ reqs[s].resp.code = "VALIDATION_ERROR"
       /\ reqs[s].calls = 0
       /\ reqs[s].coWrites = <<>>
       /\ reqs[s].ctWrites = <<>>

\* A body with a company name and blanks for email and phone was refused
\* while the store already held a contact.
C6_Witness ==
  \E s \in Slots :
    /\ IsPost(reqs[s]) /\ Answered(reqs[s])
    /\ Get(reqs[s].body, "company_name") = <<"a", "a">>
    /\ Get(reqs[s].body, "email") = <<" ">>
    /\ reqs[s].resp.error = "Provide email or phone"
    /\ contacts # <<>>
    /\ companies = <<>>

Succeeded(r) == Answered(r) /\ r.resp.status \in {200, 201}

\* The answer of a successful POST and the writes it made.
C9_Answer(r) ==
  \/ /\ r.existing # NoId
     /\ r.resp.status = 200 /\ r.resp.action = "updated"
     /\ r.resp.id = r.existing
     /\ r.ctWrites = <<<<"update", r.existing>>>>
  \/ /\ r.existing = NoId
     /\ r.resp.status = 201 /\ r.resp.action = "created"
     /\ r.ctWrites = <<<<"insert", r.resp.id>>>>

\* The write step of a POST: an update keeps the row's place (its id), its
\* created_at and every other row; an insert adds one row and keeps the others.
C9_Write(s) ==
  (reqs[s].pc = "ctWrite" /\ reqs'[s].pc = "done") =>
    IF reqs[s].existing # NoId
      THEN /\ Len(contacts') = Len(contacts)
           /\ contacts'[reqs[s].existing].created_at
                = contacts[reqs[s].existing].created_at
           /\ \A i \in DOMAIN contacts :
                i # reqs[s].existing => contacts'[i] = contacts[i]
      ELSE /\ Len(contacts') = Len(contacts) + 1
           /\ \A i \in DOMAIN contacts : contacts'[i] = contacts[i]

\* C9: every successful POST made exactly one write on contacts: an update
\* of the record the dedup lookup found (same id, same created_at), answered
\* 200 'updated', or one insert when it found none, answered 201 'created';
\* no request makes two writes, and none succeeds without one.
C9_ExactlyOneWrite ==
  /\ [](\A s \in Slots :
          /\ IsPost(reqs[s]) => Len(reqs[s].ctWrites) <= 1
          /\ (IsPost(reqs[s]) /\ Succeeded(reqs[s])) => C9_Answer(reqs[s]))
  /\ [][\A s \in Slots : C9_Write(s)]_vars

\* An update was answered 200 'updated' for a contact created earlier: its
\* created_at is older than the updated_at the update wrote.
C9_Witness ==
  \E s \in Slots :
    /\ IsPost(reqs[s]) /\ Succeeded(reqs[s])
    /\ reqs[s].resp.action = "updated"
    /\ contacts[reqs[s].resp.id].created_at < contacts[reqs[s].resp.id].updated_at
    /\ Len(contacts) = 2

\* C7: a contact marked deleted is left out of every operation: no GET
\* returns it, POST does not take it for its dedup target, PATCH neither
\* changes nor returns it.
C7_DeletedExcluded ==
  \A s \in Slots :
    Answered(reqs[s]) =>
      /\ reqs[s].resp.id # NoId => Live(contacts[reqs[s].resp.id])
      /\ \A k \in 1..Len(reqs[s].resp.data) : Live(contacts[reqs[s].resp.data[k]])
      /\ \A k \in 1..Len(reqs[s].ctWrites) : Live(contacts[reqs[s].ctWrites[k][2]])

\* What a stored null is, per column.
NullOf(k) == IF k = "client_company_id" THEN NoId ELSE Null

\* The step in which PATCH runs and answers.
PatchAnswers(s) ==
  reqs[s].pc = "idle" /\ reqs'[s].pc = "done" /\ reqs'[s].kind = "PATCH"

\* C10: PATCH changes only the fields its body carries, and updated_at: a
\* patchable field absent from the body keeps its value, id, organization and
\* created_at stay, no other row changes, and an explicit null for
\* client_company_id, birth_date, last_interaction, last_purchase_date or
\* total_value stores null.
C10_PatchFrame ==
  [][\A s \in Slots :
       PatchAnswers(s) =>
         /\ Len(contacts') = Len(contacts)
         /\ \A i \in DOMAIN contacts :
              /\ contacts'[i].org = contacts[i].org
              /\ contacts'[i].created_at = contacts[i].created_at
              /\ contacts'[i].deleted = contacts[i].deleted
              /\ \A k \in UpsertKeys \ DOMAIN reqs'[s].body :
                   contacts'[i][k] = contacts[i][k]
              /\ i # reqs'[s].resp.id => contacts'[i] = contacts[i]
              /\ i = reqs'[s].resp.id =>
                   \A k \in NullableKeys \cap DOMAIN reqs'[s].body :
                     reqs'[s].body[k] = Null => contacts'[i][k] = NullOf(k)]_vars

\* A PATCH of explicit nulls was answered 200 for a contact that an earlier
\* PATCH had renamed: the nullable fields are null, the name is kept.
C10_Witness ==
  \E s \in Slots :
    /\ Answered(reqs[s]) /\ reqs[s].kind = "PATCH"
    /\ reqs[s].resp.status = 200
    /\ Get(reqs[s].body, "birth_date") = Null
    /\ contacts[reqs[s].resp.id].name = <<"m">>
    /\ contacts[reqs[s].resp.id].birth_date = Null
    /\ contacts[reqs[s].resp.id].client_company_id = NoId
    /\ contacts[reqs[s].resp.id].total_value = Null
    /\ contacts[reqs[s].resp.id].created_at < contacts[reqs[s].resp.id].updated_at
    /\ \E j \in DOMAIN contacts : contacts[j].birth_date = <<"ymd", 1>>

\* The last page of a listing has been answered.
ListingEnded(r) ==
  /\ r.kind = "GET" /\ Answered(r)
  /\ r.resp.status = 200
  /\ r.resp.nextCursor = Null

\* C4: with the store unchanged, a listing followed from no cursor through
\* every nextCursor to the page whose nextCursor is null has returned every
\* matching contact exactly once.
C4_EveryRecordOnce ==
  \A s \in Slots :
    ListingEnded(reqs[s]) =>
      /\ Len(reqs[s].visited) = Cardinality(ListMatches(reqs[s].org, reqs[s].body))
      /\ {reqs[s].visited[k] : k \in 1..Len(reqs[s].visited)}
           = ListMatches(reqs[s].org, reqs[s].body)

\* A string no date can be read from.
Unparsable(v) == v \in {<<"junk">>, <<"ymdx">>}

DateError(k) ==
  IF k = "birth_date" THEN "Invalid birth_date"
  ELSE IF k = "last_purchase_date" THEN "Invalid last_purchase_date"
  ELSE "Invalid last_interaction"

\* The request got as far as its date fields.
ReadsDates(r) ==
  /\ Answered(r)
  /\ r.resp.status # 401
  /\ \/ /\ r.kind = "POST" /\ ContactUpsertSchema(r.body)
        /\ \/ normalizeEmail(Get(r.body, "email")) # Null
           \/ normalizePhone(Get(r.body, "phone")) # Null
     \/ /\ r.kind = "PATCH" /\ isValidUUID(r.target)
        /\ ContactPatchSchema(r.body)

\* C11: a POST or PATCH that carries an unparsable string in birth_date,
\* last_purchase_date or last_interaction is answered 422 VALIDATION_ERROR
\* with a message naming such a field, and writes no contact.
C11_UnparsableDateRejected ==
  \A s \in Slots :
    (ReadsDates(reqs[s]) /\ \E k \in DateKeys : Unparsable(Get(reqs[s].body, k)))
      => /\ reqs[s].resp.status = 422
         /\ reqs[s].resp.code = "VALIDATION_ERROR"
         /\ \E k \in DateKeys : /\ Unparsable(Get(reqs[s].body, k))
                                /\ reqs[s].resp.error = DateError(k)
         /\ reqs[s].ctWrites = <<>>

\* The request's email is held by one live contact of the tenant and its
\* phone by another.
MatchesTwo(r) ==
  LET email == normalizeEmail(Get(r.body, "email"))
      phone == normalizePhone(Get(r.body, "phone"))
  IN /\ IsPost(r)
     /\ email # Null /\ phone # Null
     /\ \E i, j \in DOMAIN contacts :
          /\ i # j
          /\ contacts[i].org = r.org /\ Live(contacts[i])
          /\ contacts[j].org = r.org /\ Live(contacts[j])
          /\ contacts[i].email = email
          /\ contacts[j].phone = phone

\* C12: a POST whose email and phone match two different live contacts has
\* one outcome only, fixed by the store and the request: the answer is the
\* lookup's error (500 DB_ERROR), and no step of the request inserts or
\* updates a contact.
C12_TwoMatchesOneOutcome ==
  /\ [](\A s \in Slots :
          (MatchesTwo(reqs[s]) /\ Answered(reqs[s])) =>
            /\ reqs[s].resp = Json(500, "DB_ERROR", "multiple rows returned")
            /\ reqs[s].ctWrites = <<>>)
  /\ [][\A s \in Slots :
          (MatchesTwo(reqs[s]) /\ reqs[s].pc # "done" /\ reqs'[s] # reqs[s]) =>
            contacts' = contacts]_vars

C12_Witness ==
  \E s \in Slots :
    /\ MatchesTwo(reqs[s]) /\ Answered(reqs[s])
    /\ reqs[s].calls = 1
    /\ reqs[s].resp.status = 500

\* The store adapter reported an error to this request.
StoreFailed(r) == IsPost(r) /\ Answered(r) /\ r.resp.error = AdapterMessage

\* C13: a POST to which the store adapter reports an error, on whichever
\* store call, is answered with code DB_ERROR (status 500) and the adapter's
\* message.
C13_StoreErrorSurfaced ==
  \A s \in Slots :
    StoreFailed(reqs[s]) =>
      /\ reqs[s].resp.status = 500
      /\ reqs[s].resp.code = "DB_ERROR"

\* Two live contacts of one tenant.
LivePair(i, j) ==
  /\ i # j
  /\ Live(contacts[i]) /\ Live(contacts[j])
  /\ contacts[i].org = contacts[j].org

\* C14: requests that do not overlap leave the dedup key sound: no two live
\* contacts of one tenant share a non-null email or a non-null phone, and
\* every live contact has an email or a phone.
C14_DedupKeySound ==
  /\ \A i, j \in DOMAIN contacts :
       LivePair(i, j) =>
         /\ contacts[i].email # Null => contacts[i].email # contacts[j].email
         /\ contacts[i].phone # Null => contacts[i].phone # contacts[j].phone
  /\ \A i \in DOMAIN contacts :
       Live(contacts[i]) => contacts[i].email # Null \/ contacts[i].phone # Null

\* The request's normalized value of a field that the update overwrites.
Normalized(b, k) ==
  IF k = "email" THEN normalizeEmail(Get(b, k))
  ELSE IF k = "phone" THEN normalizePhone(Get(b, k))
  ELSE IF k \in {"birth_date", "last_purchase_date"} THEN toIsoDateString(Get(b, k))
  ELSE IF k = "last_interaction" THEN toIsoTimestamp(Get(b, k))
  ELSE normalizeText(Get(b, k))

OverwrittenKeys ==
  UpsertKeys \ {"name", "total_value", "client_company_id"}

\* Request s is about to write, and this step is that write.
Updates(s) ==
  /\ reqs[s].pc = "ctWrite" /\ reqs[s].existing # NoId
  /\ reqs'[s].pc = "done" /\ reqs'[s].resp.action = "updated"

Creates(s) ==
  /\ reqs[s].pc = "ctWrite" /\ reqs[s].existing = NoId
  /\ reqs'[s].pc = "done" /\ reqs'[s].resp.action = "created"

\* What the update leaves in every column but client_company_id, and what
\* the insert puts in status and stage.
FrameButCompany(s) ==
  LET b == reqs[s].body
      id == reqs[s].existing
      name == normalizeText(Get(b, "name"))
  IN /\ Updates(s) =>
          /\ contacts'[id].name = IF name # Null THEN name ELSE contacts[id].name
          /\ contacts'[id].total_value =
               IF "total_value" \in DOMAIN b THEN b.total_value
               ELSE contacts[id].total_value
          /\ \A k \in OverwrittenKeys : contacts'[id][k] = Normalized(b, k)
     /\ Creates(s) =>
          /\ contacts'[reqs'[s].resp.id].status = <<"A", "C", "T", "I", "V", "E">>
          /\ contacts'[reqs'[s].resp.id].stage = <<"L", "E", "A", "D">>

\* The company id the request ends with: the id it gives, else the live
\* company of the tenant that its company_name resolves to, else null.
CompanyOf(r, id) ==
  LET given == sanitizeUUID(Get(r.body, "client_company_id"))
      companyName == normalizeText(Get(r.body, "company_name"))
  IN IF given # NoId THEN id = given
     ELSE IF companyName # Null THEN id \in CompanyMatches(r.org, companyName)
     ELSE id = NoId

\* C15 as stated: on the update path client_company_id, like the other
\* overwritten fields, becomes the request's own value, null when omitted.
C15_Original ==
  [][\A s \in Slots :
       /\ FrameButCompany(s)
       /\ Updates(s) =>
            contacts'[reqs[s].existing].client_company_id =
              sanitizeUUID(Get(reqs[s].body, "client_company_id"))]_vars

\* C15: on the update path name changes only to a non-empty name of the
\* request, total_value only to a total_value of the request, and every
\* other field is overwritten with the request's normalized value, null
\* when omitted, except that an omitted client_company_id becomes the id of
\* the company that company_name resolves to when the request names one; on
\* the create path status is 'ACTIVE' and stage is 'LEAD'.
C15_UpdateFrame ==
  [][\A s \in Slots :
       /\ FrameButCompany(s)
       /\ Updates(s) =>
            CompanyOf(reqs[s], contacts'[reqs[s].existing].client_company_id)]_vars

C15_Witness ==
  \E s \in Slots :
    /\ IsPost(reqs[s]) /\ Answered(reqs[s])
    /\ reqs[s].resp.action = "updated"
    /\ DOMAIN reqs[s].body = {"email"}
    /\ contacts[reqs[s].resp.id].name = <<"n">>
    /\ contacts[reqs[s].resp.id].total_value = <<"num", 5>>
    /\ contacts[reqs[s].resp.id].phone = Null
    /\ contacts[reqs[s].resp.id].status = Null

====
